---- MODULE Spec2Model ----
(***************************************************************************)
(* Convex-hull "onion peeling" of a point cloud, as implemented by         *)
(*   src/src/paretoviz/peeler.py   (collapse, project, get_convex_hull,    *)
(*                                  peel, and the script entry point)      *)
(*   src/src/tda/simple_shape.py   (collapse, project, get_shape_layers)   *)
(*                                                                         *)
(* Conventions.                                                            *)
(*  - A point is a sequence of coordinates, a cloud a sequence of points.  *)
(*    Point indices are the program's 0-based indices; the point with      *)
(*    index i is element i+1 of the cloud.                                 *)
(*  - A coordinate is an exact rational with denominator Den, stored as    *)
(*    its numerator: the integer x stands for the real x / Den.  project   *)
(*    is computed in exact arithmetic (u[i] * u[i] = 1/m), so floating     *)
(*    point rounding is not part of the model.                             *)
(*  - scipy.spatial.ConvexHull is a library: the model computes whether    *)
(*    Qhull can start (an initial simplex that is not flat) from the       *)
(*    coordinates, and leaves the vertex set it reports open: any set of   *)
(*    at least dim+1 positions of the sub-cloud.                           *)
(***************************************************************************)
EXTENDS Integers, Sequences, FiniteSets, TLC

VARIABLES
    engine,       \* "peel" (peeler.py run as a script) or "shape" (get_shape_layers)
    mode,         \* "default" / "no-project"; for "shape": project_collapse = (mode = "default")
    points,       \* the caller's point cloud (points in peeler.py, F in simple_shape.py)
    P,            \* the cloud handed to the peeling loop (cpoints / P)
    pc,           \* "start", "peeling", "done", "error", or "call" / "returned" for single calls
    all_indices,  \* the ActiveSet: all_indices in peel, Id in get_shape_layers
    boundaries,   \* the LayerSequence built so far: boundaries in peel, L in get_shape_layers
    l,            \* the iteration counter: l in peel, i in get_shape_layers
    raised,       \* the exception that ended the run, or "none"
    hull_calls,   \* history: the sizes of the index lists handed to the hull solver
    call,         \* a single call of a core function: its name and arguments
    ret,          \* what that call returned or raised
    file,         \* the text of the layer file on disk
    hull_memo,    \* what the hull solver returned, per sub-cloud it was given
    actives,      \* history: the ActiveSets of this run, in order
    prior         \* what the previous run on this cloud went through and returned

vars == <<engine, mode, points, P, pc, all_indices, boundaries, l, raised,
          hull_calls, call, ret, file, hull_memo, actives, prior>>

-----------------------------------------------------------------------------
(* Bounds of the model.                                                    *)

MaxN == 8
MaxM == 3
MaxCoord == 1
MaxStride == 3
MaxFnN == 5
MaxOpenN == 5

-----------------------------------------------------------------------------
(* Generic helpers.                                                        *)

Range(s) == {s[i] : i \in 1..Len(s)}

Min(S) == CHOOSE x \in S : \A y \in S : x <= y

RECURSIVE SortedSeq(_)
SortedSeq(S) == IF S = {} THEN <<>> ELSE <<Min(S)>> \o SortedSeq(S \ {Min(S)})

RECURSIVE Factorial(_)
Factorial(n) == IF n <= 1 THEN 1 ELSE n * Factorial(n - 1)

RECURSIVE Power(_, _)
Power(b, e) == IF e = 0 THEN 1 ELSE b * Power(b, e - 1)

RECURSIVE SeqSum(_)
SeqSum(s) == IF s = <<>> THEN 0 ELSE Head(s) + SeqSum(Tail(s))

\* The common denominator of all coordinates: every m <= MaxM divides it.
Den == Factorial(MaxM)

\* range(n): the 0-based indices 0, 1, ..., n-1 in order.
range(n) == [i \in 1..n |-> i - 1]

-----------------------------------------------------------------------------
(* The input clouds.                                                       *)

\* The point of the integer grid {0..MaxCoord}^m with number c, digit by digit.
GridPoint(c, m) ==
    [j \in 1..m |-> Den * ((c \div Power(MaxCoord + 1, j - 1)) % (MaxCoord + 1))]

\* Clouds of n points of dimension m: point i is grid point number i * k for a
\* stride k.  Stride 0 is n coincident points, an even stride a collinear
\* cloud, stride 1 walks through the whole grid.
Clouds(n, m) ==
    { [i \in 1..n |-> GridPoint(((i - 1) * k) % Power(MaxCoord + 1, m), m)] :
        k \in 0..MaxStride }

\* Three clouds of dimension 2: the corners of the unit square, the corners
\* and the centre, and five points on a line.
ScenarioA ==
    << <<0, 0>>, <<Den, 0>>, <<Den, Den>>, <<0, Den>> >>

ScenarioB ==
    << <<0, 0>>, <<Den, 0>>, <<Den, Den>>, <<0, Den>>, <<Den \div 2, Den \div 2>> >>

ScenarioC ==
    [i \in 1..5 |-> <<(i - 1) * Den, (i - 1) * Den>>]

Scenarios == {ScenarioA, ScenarioB, ScenarioC}

\* The clouds a run starts from.
InputClouds ==
    Scenarios \cup UNION {Clouds(N, M) : N \in 1..MaxN, M \in 1..MaxM}

-----------------------------------------------------------------------------
(* numpy and scipy, as far as the program uses them.                       *)

\* np.delete(a, obj) for a 1-d array a and a set obj of integer positions:
\* a negative position counts from the end, a position outside -n..n-1 is an
\* IndexError.
np_delete(a, obj) ==
    LET n == Len(a)
    IN  IF \E o \in obj : o < -n \/ o >= n
          THEN [raised |-> "IndexError", value |-> <<>>]
          ELSE LET drop == {IF o < 0 THEN o + n ELSE o : o \in obj}
                   keep == SortedSeq((0..(n - 1)) \ drop)
               IN  [raised |-> "none",
                    value  |-> [j \in 1..Len(keep) |-> a[keep[j] + 1]]]

\* The determinant of a square matrix (a sequence of rows), by expansion
\* along the first row.
RECURSIVE Det(_)
Det(A) ==
    IF Len(A) = 0 THEN 1
    ELSE LET n == Len(A)
             Minor(j) == [r \in 1..(n - 1) |->
                            [c \in 1..(n - 1) |-> A[r + 1][IF c < j THEN c ELSE c + 1]]]
             Expand[j \in 0..n] ==
                 IF j = 0 THEN 0
                 ELSE Expand[j - 1]
                        + (IF j % 2 = 1 THEN 1 ELSE -1) * A[1][j] * Det(Minor(j))
         IN  Expand[n]

\* Every dim+1 points of p lie in a common hyperplane: Qhull finds no initial
\* simplex that is not flat.
AffinelyDegenerate(p) ==
    LET n   == Len(p)
        dim == Len(p[1])
    IN  \A T \in SUBSET (1..n) :
            Cardinality(T) = dim + 1 =>
                LET t == SortedSeq(T)
                IN  Det([r \in 1..dim |->
                           [c \in 1..dim |-> p[t[r + 1]][c] - p[t[1]][c]]]) = 0

QhullError == [ok |-> FALSE, vertices |-> {}]

\* The orientation determinant of dim+1 points t[1], ..., t[dim+1].
Orient(t) ==
    LET dim == Len(t[1])
    IN  Det([r \in 1..dim |-> [c \in 1..dim |-> t[r + 1][c] - t[1][c]]])

\* v lies in the closed simplex spanned by the dim+1 points of t, which are
\* affinely independent: every barycentric coordinate of v is >= 0.
InSimplex(v, t) ==
    LET Sign(x) == IF x > 0 THEN 1 ELSE IF x < 0 THEN -1 ELSE 0
        D == Sign(Orient(t))
    IN  \A i \in 1..Len(t) :
            Sign(Orient([j \in 1..Len(t) |-> IF j = i THEN v ELSE t[j]])) * D >= 0

\* The positions (0-based) of the extreme points of a cloud p that is not
\* affinely degenerate: p[i] lies in no simplex spanned by other points of p.
ExtremePositions(p) ==
    LET n   == Len(p)
        dim == Len(p[1])
    IN  {i - 1 : i \in {k \in 1..n :
            ~\E T \in SUBSET {j \in 1..n : p[j] # p[k]} :
                /\ Cardinality(T) = dim + 1
                /\ LET t == [r \in 1..(dim + 1) |-> p[SortedSeq(T)[r]]]
                   IN  Orient(t) # 0 /\ InSimplex(p[k], t)}}

\* The vertex sets of the hull of p: one position for each extreme point (of
\* coincident points Qhull keeps one).
VertexSets(p) ==
    LET E == ExtremePositions(p)
    IN  {V \in SUBSET E :
            \A e \in E : Cardinality({v \in V : p[v + 1] = p[e + 1]}) = 1}

\* scipy.spatial.ConvexHull(p) and ConvexHull(p, qhull_options = "Qa QJ Q12"):
\* the outcomes Qhull can produce on the sub-cloud p.  It raises QhullError on
\* points of dimension below 2, on fewer than dim+1 points and, unless the
\* input is joggled (QJ), on a flat initial simplex.  The vertices of a hull
\* it builds are positions 0..n-1 of p, at least dim+1 of them: the extreme
\* points of p; of a joggled p, whose points have moved by a random small
\* amount, any dim+1 or more positions.
ConvexHull(p, joggle) ==
    LET n   == Len(p)
        dim == Len(p[1])
    IN  IF dim < 2 \/ n < dim + 1 \/ (~joggle /\ AffinelyDegenerate(p))
          THEN {QhullError}
          ELSE IF joggle
            THEN {[ok |-> TRUE, vertices |-> V] :
                     V \in {W \in SUBSET (0..(n - 1)) : Cardinality(W) >= dim + 1}}
            ELSE {[ok |-> TRUE, vertices |-> V] : V \in VertexSets(p)}

-----------------------------------------------------------------------------
(* The core functions.                                                     *)

\* collapse with the coordinate argument ignored: the default, coordinate 0, is
\* dropped whatever dim is.
collapse_ignores_dim(pts, dim) ==
    [k \in 1..Len(pts) |-> Tail(pts[k])]

\* peeler.py collapse(points, dim): every coordinate whose position is not dim.
collapse(pts, dim) ==
    [k \in 1..Len(pts) |->
        LET p    == pts[k]
            kept == SortedSeq({i \in 0..(Len(p) - 1) : i # dim})
        IN  [j \in 1..Len(kept) |-> p[kept[j] + 1]]]

\* simple_shape.py collapse(F, d): F[:, np.delete(np.arange(0, M), d)].
collapse_nd(F, d) ==
    LET M    == Len(F[1])
        cols == np_delete(range(M), {d})
    IN  IF cols.raised # "none"
          THEN [raised |-> cols.raised, value |-> <<>>]
          ELSE [raised |-> "none",
                value  |-> [i \in 1..Len(F) |->
                              [j \in 1..Len(cols.value) |-> F[i][cols.value[j] + 1]]]]

\* The clouds project is exact on: the coordinate sum of each point is a
\* multiple of the dimension (in units of 1/Den).
Projectable(pts) ==
    \A k \in 1..Len(pts) : Len(pts[k]) > 0 /\ SeqSum(pts[k]) % Len(pts[k]) = 0

\* project with u left unnormalised, u[i] = 1: uTpu[i] = sum(p).
project_unnormalised(pts) ==
    LET dim == Len(pts[1])
    IN  [k \in 1..Len(pts) |->
            [i \in 1..Len(pts[k]) |-> (pts[k][i] - SeqSum(pts[k])) + (Den \div dim)]]

\* peeler.py project(points): with u[i] = 1/sqrt(dim), uTp = sum(p) / sqrt(dim),
\* uTpu[i] = sum(p) / dim and u[i] / sqrt(dim) = 1 / dim.
project(pts) ==
    LET dim == Len(pts[1])
    IN  [k \in 1..Len(pts) |->
            LET p    == pts[k]
                uTpu == SeqSum(p) \div dim
            IN  [i \in 1..Len(p) |-> (p[i] - uTpu) + (Den \div dim)]]

\* simple_shape.py project(F): the same arithmetic on whole arrays.
project_nd(F) ==
    LET N      == Len(F)
        M      == Len(F[1])
        uTuTFT == [k \in 1..N |-> [i \in 1..M |-> SeqSum(F[k]) \div M]]
    IN  [k \in 1..N |-> [i \in 1..M |-> (F[k][i] - uTuTFT[k][i]) + (Den \div M)]]

\* get_convex_hull with line 63 as hull_indices.add(vertex): positions in the
\* sub-cloud p instead of the original indices indices[vertex].
get_convex_hull_local(pts, indices, rows_hashable, solver) ==
    LET p == [i \in 1..Len(indices) |-> pts[indices[i] + 1]]
        m == Len(p[1])
    IN  IF Len(p) <= m + 1
          THEN IF rows_hashable
                 THEN [raised |-> "none", hull_indices |-> Range(p)]
                 ELSE [raised |-> "TypeError", hull_indices |-> {}]
          ELSE IF ~solver.ok
                 THEN [raised |-> "QhullError", hull_indices |-> {}]
                 ELSE [raised |-> "none", hull_indices |-> solver.vertices]

\* peeler.py get_convex_hull(points, indices).  rows_hashable tells whether the
\* rows of points are hashable (tuples) or not (lists, as collapse and project
\* build them); solver is the outcome of ConvexHull(p).
get_convex_hull(pts, indices, rows_hashable, solver) ==
    LET p == [i \in 1..Len(indices) |-> pts[indices[i] + 1]]
        m == Len(p[1])
    IN  IF Len(p) <= m + 1
          THEN \* hull_indices = set(p): a set of points, not of indices
               IF rows_hashable
                 THEN [raised |-> "none", hull_indices |-> Range(p)]
                 ELSE [raised |-> "TypeError", hull_indices |-> {}]
          ELSE IF ~solver.ok
                 THEN [raised |-> "QhullError", hull_indices |-> {}]
                 ELSE [raised |-> "none",
                       hull_indices |-> {indices[v + 1] : v \in solver.vertices}]

-----------------------------------------------------------------------------
(* The peeling loops, line by line.                                        *)

\* line 78 looping until no index is left: while len(all_indices) > 0
peel_continues_until_empty(indices, m) == Len(indices) > 0

\* peel, line 78: while len(all_indices) > m + 1
peel_continues(indices, m) == Len(indices) > m + 1

\* line 82 taking every returned set, the empty one too, for a hull.
peel_has_hull_always(hull_indices) == TRUE

\* peel, line 82: if len(hull_indices) > 0
peel_has_hull(hull_indices) == Cardinality(hull_indices) > 0

\* peel, line 84: list(hull_indices)
peel_layer(hull_indices) == SortedSeq(hull_indices)

\* line 86 filtering every index of the cloud instead of the active ones:
\* indices peeled earlier come back.
peel_remaining_of_cloud(indices, hull_indices) ==
    SelectSeq(range(Len(P)), LAMBDA x : x \notin hull_indices)

\* peel, line 86: [x for x in all_indices if x not in hull_indices]
peel_remaining(indices, hull_indices) ==
    SelectSeq(indices, LAMBDA x : x \notin hull_indices)

\* lines 93-97 with the test off by one: a remainder of one point is dropped.
peel_return_drops_single(indices, layers) ==
    IF Len(indices) > 1 THEN Append(layers, indices) ELSE layers

\* peel, lines 93-97: the remainder is a layer only if it is not empty
peel_return(indices, layers) ==
    IF Len(indices) > 0 THEN Append(layers, indices) ELSE layers

\* line 90 with the threshold off by one: while Id.shape[0] >= 2 * M
shape_continues_from_2M(Id, M) == Len(Id) >= 2 * M

\* get_shape_layers, line 90: while Id.shape[0] >= (2 * M + 1)
shape_continues(Id, M) == Len(Id) >= 2 * M + 1

\* line 95 appending Ih itself: positions in the sub-cloud G instead of the
\* original indices Id[Ih].
shape_layer_local(Id, Ih) == SortedSeq(Ih)

\* get_shape_layers, line 95: Id[Ih]
shape_layer(Id, Ih) ==
    LET at == SortedSeq(Ih) IN [j \in 1..Len(at) |-> Id[at[j] + 1]]

\* get_shape_layers, line 96: np.delete(Id, Ih)
shape_remaining(Id, Ih) == np_delete(Id, Ih).value

\* get_shape_layers, lines 100-102: L.append(Id); return np.array(L).  The
\* remainder is appended whether or not it is empty; np.array packs the layers
\* as they are, in order.
shape_return(Id, L) == Append(L, Id)

\* the sub-cloud of the active points: p in get_convex_hull, G = P[Id]
SubCloud(pts, indices) == [i \in 1..Len(indices) |-> pts[indices[i] + 1]]

\* project with the result written back into the rows of its argument instead
\* of into the new list points_ (peeler.py line 39) / the new array P
\* (simple_shape.py line 67).
cloud_after_project_in_place(fn, pts) ==
    IF fn \in {"project", "project_nd"} /\ Projectable(pts) THEN project(pts) ELSE pts

\* the cloud a caller passed to the core function fn, as the caller sees it
\* once fn has returned or raised.  Every function only reads its argument:
\* collapse and project fill the new lists p_ and points_, get_convex_hull
\* fills the new list p, peel only indexes points; the numpy versions return
\* new arrays (fancy indexing, arithmetic, np.array(F, copy = True), P[Id]).
cloud_after(fn, pts) == pts

NoCall == [fn |-> "none"]
NoPrior == [pc |-> "none"]

\* the hull solver with its answer on every sub-cloud free on each call
HullChoices_fresh(p, joggle) == ConvexHull(p, joggle)

\* ConvexHull as a function of the points it is given: a sub-cloud it has
\* answered before gets the same answer again.
HullChoices(p, joggle) ==
    IF \E e \in hull_memo : e.p = p
      THEN {e.h : e \in {f \in hull_memo : f.p = p}}
      ELSE ConvexHull(p, joggle)
NoRet  == [raised |-> "none"]

-----------------------------------------------------------------------------
(* A run of the peeler.py script, or a call of get_shape_layers.           *)

Init ==
    /\ engine \in {"peel", "shape"}
    /\ mode \in {"default", "no-project"}
    /\ points \in InputClouds
    /\ P = <<>>
    /\ pc = "start"
    /\ all_indices = <<>>
    /\ boundaries = <<>>
    /\ l = 0
    /\ raised = "none"
    /\ hull_calls = <<>>
    /\ call = NoCall
    /\ ret = NoRet
    /\ file = <<>>
    /\ hull_memo = {}
    /\ actives = <<>>
    /\ prior = NoPrior

\* peeler.py lines 109-118, up to the first test of peel's loop (lines 73-77).
Main ==
    /\ engine = "peel" /\ pc = "start"
    /\ LET m == Len(points[1])
       IN  P' = IF mode = "default"
                  THEN collapse(project(points), m - 1)
                  ELSE points
    /\ all_indices' = range(Len(P'))
    /\ boundaries' = <<>>
    /\ l' = 0
    /\ pc' = "peeling"
    /\ points' = IF mode = "default" THEN cloud_after("project", points) ELSE points
    /\ actives' = <<all_indices'>>
    /\ UNCHANGED <<engine, mode, raised, hull_calls, call, ret, file, hull_memo, prior>>

\* peel, one pass of the loop body (lines 78-92); a break runs on into the
\* return (lines 93-97).
PeelIter ==
    /\ engine = "peel" /\ pc = "peeling"
    /\ peel_continues(all_indices, Len(P[1]))
    /\ hull_calls' = Append(hull_calls, Len(all_indices))
    /\ \E solver \in HullChoices(SubCloud(P, all_indices), FALSE) :
         LET r == get_convex_hull(P, all_indices, FALSE, solver)
         IN  /\ hull_memo' = hull_memo \cup {[p |-> SubCloud(P, all_indices), h |-> solver]}
             /\ IF r.raised # "none"
                  THEN /\ pc' = "error"
                       /\ raised' = r.raised
                       /\ UNCHANGED <<all_indices, boundaries, l, actives>>
                  ELSE IF peel_has_hull(r.hull_indices)
                    THEN /\ boundaries' = Append(boundaries, peel_layer(r.hull_indices))
                         /\ all_indices' = peel_remaining(all_indices, r.hull_indices)
                         /\ actives' = Append(actives, all_indices')
                         /\ l' = l + 1
                         /\ UNCHANGED <<pc, raised>>
                    ELSE /\ boundaries' = peel_return(all_indices, boundaries)
                         /\ pc' = "done"
                         /\ UNCHANGED <<all_indices, l, raised, actives>>
    /\ P' = cloud_after("get_convex_hull", P)
    /\ UNCHANGED <<engine, mode, points, call, ret, file, prior>>

\* peel, the loop test fails: lines 93-97.
PeelReturn ==
    /\ engine = "peel" /\ pc = "peeling"
    /\ ~peel_continues(all_indices, Len(P[1]))
    /\ boundaries' = peel_return(all_indices, boundaries)
    /\ pc' = "done"
    /\ P' = cloud_after("peel", P)
    /\ UNCHANGED <<engine, mode, points, all_indices, l, raised, hull_calls,
                   call, ret, file, hull_memo, actives, prior>>

\* get_shape_layers, lines 73-89.
ShapeStart ==
    /\ engine = "shape" /\ pc = "start"
    /\ LET F  == points
           N  == Len(F)
           M  == Len(F[1])
       IN  /\ P' = IF mode = "default"
                     THEN IF M >= 3
                            THEN LET F_ == project_nd(F)
                                 IN  collapse_nd(F, M - 1).value
                            ELSE project_nd(F)
                     ELSE F
           /\ all_indices' = range(N)
    /\ boundaries' = <<>>
    /\ l' = 0
    /\ pc' = "peeling"
    /\ points' = IF mode = "default"
                   THEN IF Len(points[1]) >= 3
                          THEN cloud_after("collapse_nd", cloud_after("project_nd", points))
                          ELSE cloud_after("project_nd", points)
                   ELSE points
    /\ actives' = <<all_indices'>>
    /\ UNCHANGED <<engine, mode, raised, hull_calls, call, ret, file, hull_memo, prior>>

\* get_shape_layers, one pass of the loop body (lines 90-99).
ShapeIter ==
    /\ engine = "shape" /\ pc = "peeling"
    /\ shape_continues(all_indices, Len(points[1]))
    /\ hull_calls' = Append(hull_calls, Len(all_indices))
    /\ \E H \in HullChoices(SubCloud(P, all_indices), TRUE) :
         /\ hull_memo' = hull_memo \cup {[p |-> SubCloud(P, all_indices), h |-> H]}
         /\ IF ~H.ok
              THEN /\ pc' = "error"
                   /\ raised' = "QhullError"
                   /\ UNCHANGED <<all_indices, boundaries, l, actives>>
              ELSE LET Ih == H.vertices
                   IN  /\ boundaries' = Append(boundaries, shape_layer(all_indices, Ih))
                       /\ all_indices' = shape_remaining(all_indices, Ih)
                       /\ actives' = Append(actives, all_indices')
                       /\ l' = l + 1
                       /\ UNCHANGED <<pc, raised>>
    /\ points' = cloud_after("get_shape_layers", points)
    /\ UNCHANGED <<engine, mode, P, call, ret, file, prior>>

\* get_shape_layers, the loop test fails: lines 100-102.
ShapeReturn ==
    /\ engine = "shape" /\ pc = "peeling"
    /\ ~shape_continues(all_indices, Len(points[1]))
    /\ boundaries' = shape_return(all_indices, boundaries)
    /\ pc' = "done"
    /\ points' = cloud_after("get_shape_layers", points)
    /\ UNCHANGED <<engine, mode, P, all_indices, l, raised, hull_calls,
                   call, ret, file, hull_memo, actives, prior>>

Next ==
    \/ Main
    \/ PeelIter
    \/ PeelReturn
    \/ ShapeStart
    \/ ShapeIter
    \/ ShapeReturn

Spec == Init /\ [][Next]_vars

-----------------------------------------------------------------------------
(* Two runs on the same cloud, one after the other.                        *)

\* the first run has returned or raised; the script is started again (or
\* get_shape_layers is called again) on the same cloud with the same options,
\* which sets every local of lines 73-77 / 73-89 anew.
Restart ==
    /\ pc \in {"done", "error"}
    /\ prior = NoPrior
    /\ prior' = [pc |-> pc, raised |-> raised, actives |-> actives,
                 boundaries |-> boundaries]
    /\ pc' = "start"
    /\ P' = <<>>
    /\ all_indices' = <<>>
    /\ boundaries' = <<>>
    /\ l' = 0
    /\ raised' = "none"
    /\ hull_calls' = <<>>
    /\ actives' = <<>>
    /\ UNCHANGED <<engine, mode, points, call, ret, file, hull_memo>>

NextTwice ==
    \/ Next
    \/ Restart

TwiceSpec == Init /\ [][NextTwice]_vars

-----------------------------------------------------------------------------
(* peel against an arbitrary hull solver.  peel guards against a solver    *)
(* that finds no hull (lines 80-82 and 88-91); scipy's ConvexHull never    *)
(* does that, it raises QhullError instead, so the guard is exercised here *)
(* with a solver that may raise or return any set of positions of p, the   *)
(* empty set included.                                                     *)

AnyHull(p) ==
    {QhullError} \cup {[ok |-> TRUE, vertices |-> V] : V \in SUBSET (0..(Len(p) - 1))}

InitOpen ==
    /\ engine = "peel"
    /\ mode \in {"default", "no-project"}
    /\ points \in {c \in InputClouds : Len(c) <= MaxOpenN}
    /\ P = <<>>
    /\ pc = "start"
    /\ all_indices = <<>>
    /\ boundaries = <<>>
    /\ l = 0
    /\ raised = "none"
    /\ hull_calls = <<>>
    /\ call = NoCall
    /\ ret = NoRet
    /\ file = <<>>
    /\ hull_memo = {}
    /\ actives = <<>>
    /\ prior = NoPrior

\* peel, one pass of the loop body (lines 78-92) with the arbitrary solver;
\* ret records what get_convex_hull returned to peel in this pass.
PeelIterAnyHull ==
    /\ engine = "peel" /\ pc = "peeling"
    /\ peel_continues(all_indices, Len(P[1]))
    /\ hull_calls' = Append(hull_calls, Len(all_indices))
    /\ \E solver \in AnyHull(SubCloud(P, all_indices)) :
         LET r == get_convex_hull(P, all_indices, FALSE, solver)
         IN  /\ ret' = [raised |-> r.raised, value |-> r.hull_indices]
             /\ IF r.raised # "none"
                  THEN /\ pc' = "error"
                       /\ raised' = r.raised
                       /\ UNCHANGED <<all_indices, boundaries, l>>
                  ELSE IF peel_has_hull(r.hull_indices)
                    THEN /\ boundaries' = Append(boundaries, peel_layer(r.hull_indices))
                         /\ all_indices' = peel_remaining(all_indices, r.hull_indices)
                         /\ l' = l + 1
                         /\ UNCHANGED <<pc, raised>>
                    ELSE /\ boundaries' = peel_return(all_indices, boundaries)
                         /\ pc' = "done"
                         /\ UNCHANGED <<all_indices, l, raised>>
    /\ P' = cloud_after("get_convex_hull", P)
    /\ UNCHANGED <<engine, mode, points, call, file, hull_memo, actives, prior>>

NextOpen ==
    \/ Main
    \/ PeelIterAnyHull
    \/ PeelReturn

OpenSpec == InitOpen /\ [][NextOpen]_vars

-----------------------------------------------------------------------------
(* Single calls of the core functions on a cloud.                          *)

InitCall ==
    /\ engine = "none"
    /\ mode = "none"
    /\ \E N \in 1..MaxFnN, M \in 1..MaxM : points \in Clouds(N, M)
    /\ P = <<>>
    /\ pc = "call"
    /\ all_indices = <<>>
    /\ boundaries = <<>>
    /\ l = 0
    /\ raised = "none"
    /\ hull_calls = <<>>
    /\ call = NoCall
    /\ ret = NoRet
    /\ file = <<>>
    /\ hull_memo = {}
    /\ actives = <<>>
    /\ prior = NoPrior

\* the values of the coordinate argument tried: in range, negative, too large
CollapseDims == (-(MaxM + 1))..(MaxM + 1)

\* peeler.py collapse(points, dim = d)
CallCollapse ==
    /\ pc = "call"
    /\ \E d \in CollapseDims :
         /\ call' = [fn |-> "collapse", d |-> d]
         /\ ret' = [raised |-> "none", value |-> collapse(points, d)]
    /\ pc' = "returned"
    /\ points' = cloud_after(call'.fn, points)
    /\ UNCHANGED <<engine, mode, P, all_indices, boundaries, l, raised,
                   hull_calls, file, hull_memo, actives, prior>>

\* simple_shape.py collapse(F, d = d)
CallCollapseNd ==
    /\ pc = "call"
    /\ \E d \in CollapseDims :
         /\ call' = [fn |-> "collapse_nd", d |-> d]
         /\ ret' = collapse_nd(points, d)
    /\ pc' = "returned"
    /\ points' = cloud_after(call'.fn, points)
    /\ UNCHANGED <<engine, mode, P, all_indices, boundaries, l, raised,
                   hull_calls, file, hull_memo, actives, prior>>

\* peeler.py project(points)
CallProject ==
    /\ pc = "call"
    /\ Projectable(points)
    /\ call' = [fn |-> "project"]
    /\ ret' = [raised |-> "none", value |-> project(points)]
    /\ pc' = "returned"
    /\ points' = cloud_after(call'.fn, points)
    /\ UNCHANGED <<engine, mode, P, all_indices, boundaries, l, raised,
                   hull_calls, file, hull_memo, actives, prior>>

\* simple_shape.py project(F)
CallProjectNd ==
    /\ pc = "call"
    /\ Projectable(points)
    /\ call' = [fn |-> "project_nd"]
    /\ ret' = [raised |-> "none", value |-> project_nd(points)]
    /\ pc' = "returned"
    /\ points' = cloud_after(call'.fn, points)
    /\ UNCHANGED <<engine, mode, P, all_indices, boundaries, l, raised,
                   hull_calls, file, hull_memo, actives, prior>>

\* peeler.py get_convex_hull(points, indices), on any non-empty list of
\* distinct indices, with rows that are lists or tuples
CallGetConvexHull ==
    /\ pc = "call"
    /\ \E S \in (SUBSET (0..(Len(points) - 1))) \ {{}}, rows_hashable \in BOOLEAN :
         LET indices == SortedSeq(S)
         IN  \E solver \in ConvexHull(SubCloud(points, indices), FALSE) :
               LET r == get_convex_hull(points, indices, rows_hashable, solver)
               IN  /\ call' = [fn |-> "get_convex_hull", indices |-> indices,
                               rows_hashable |-> rows_hashable]
                   /\ ret' = [raised |-> r.raised, value |-> r.hull_indices]
    /\ pc' = "returned"
    /\ points' = cloud_after(call'.fn, points)
    /\ UNCHANGED <<engine, mode, P, all_indices, boundaries, l, raised,
                   hull_calls, file, hull_memo, actives, prior>>

\* peeler.py project applied to the cloud project has just returned
CallProjectTwice ==
    /\ pc = "returned"
    /\ call.fn = "project"
    /\ Projectable(ret.value)
    /\ call' = [fn |-> "project_twice", arg |-> ret.value]
    /\ ret' = [raised |-> "none", value |-> project(ret.value)]
    /\ UNCHANGED <<engine, mode, points, P, pc, all_indices, boundaries, l,
                   raised, hull_calls, file, hull_memo, actives, prior>>

\* simple_shape.py project applied to the cloud project has just returned
CallProjectNdTwice ==
    /\ pc = "returned"
    /\ call.fn = "project_nd"
    /\ Projectable(ret.value)
    /\ call' = [fn |-> "project_nd_twice", arg |-> ret.value]
    /\ ret' = [raised |-> "none", value |-> project_nd(ret.value)]
    /\ UNCHANGED <<engine, mode, points, P, pc, all_indices, boundaries, l,
                   raised, hull_calls, file, hull_memo, actives, prior>>

NextCall ==
    \/ CallCollapse
    \/ CallCollapseNd
    \/ CallProject
    \/ CallProjectNd
    \/ CallProjectTwice
    \/ CallProjectNdTwice
    \/ CallGetConvexHull

CallSpec == InitCall /\ [][NextCall]_vars

-----------------------------------------------------------------------------
(* vis/utils/io.py: savetxt and loadtxt.  A text is a sequence of            *)
(* one-character strings; "\n" is the newline character.                     *)

MaxLayers == 2
MaxLayerLen == 2
MaxIndex == 10

Digits == <<"0", "1", "2", "3", "4", "5", "6", "7", "8", "9">>

Whitespace == {" ", "\n", "\t"}

\* '{:d}'.format(v)
RECURSIVE format_d(_)
format_d(v) ==
    IF v < 0 THEN <<"-">> \o format_d(-v)
    ELSE IF v < 10 THEN <<Digits[v + 1]>>
    ELSE format_d(v \div 10) \o <<Digits[(v % 10) + 1]>>

\* delimiter.join(strs)
RECURSIVE join(_, _)
join(delimiter, strs) ==
    IF strs = <<>> THEN <<>>
    ELSE IF Len(strs) = 1 THEN strs[1]
    ELSE strs[1] \o delimiter \o join(delimiter, Tail(strs))

\* savetxt, lines 108 and 109: delimiter.join([fmt.format(v) for v in X[i]])
savetxt_row(row, delimiter) ==
    join(delimiter, [j \in 1..Len(row) |-> format_d(row[j])])

\* savetxt(fname, X, fmt = '{:d}', delimiter, newline): the text written.
\* Every row but the last is followed by newline; X[X.shape[0]-1] of an array
\* with no rows is an IndexError, raised after the file was opened.
RECURSIVE savetxt_rows(_, _, _)
savetxt_rows(X, delimiter, newline) ==
    IF Len(X) = 1 THEN savetxt_row(X[1], delimiter)
    ELSE savetxt_row(X[1], delimiter) \o newline
           \o savetxt_rows(Tail(X), delimiter, newline)

savetxt(X, delimiter, newline) ==
    IF Len(X) = 0
      THEN [raised |-> "IndexError", text |-> <<>>]
      ELSE [raised |-> "none", text |-> savetxt_rows(X, delimiter, newline)]

\* for l in fp: the lines of a text, each with its "\n" if it has one.
RECURSIVE file_lines(_, _)
file_lines(text, line) ==
    IF text = <<>> THEN (IF line = <<>> THEN <<>> ELSE <<line>>)
    ELSE IF Head(text) = "\n"
           THEN <<Append(line, "\n")>> \o file_lines(Tail(text), <<>>)
           ELSE file_lines(Tail(text), Append(line, Head(text)))

\* str.strip()
RECURSIVE lstrip(_)
lstrip(t) == IF t # <<>> /\ Head(t) \in Whitespace THEN lstrip(Tail(t)) ELSE t

RECURSIVE rstrip(_)
rstrip(t) ==
    IF t # <<>> /\ t[Len(t)] \in Whitespace
      THEN rstrip(SubSeq(t, 1, Len(t) - 1))
      ELSE t

strip(t) == rstrip(lstrip(t))

\* str.split(sep) for a one-character sep: the pieces between the separators,
\* empty pieces included; "".split(sep) is [""].
RECURSIVE split_sep(_, _, _)
split_sep(t, sep, piece) ==
    IF t = <<>> THEN <<piece>>
    ELSE IF Head(t) = sep
           THEN <<piece>> \o split_sep(Tail(t), sep, <<>>)
           ELSE split_sep(Tail(t), sep, Append(piece, Head(t)))

\* str.split(None): the runs of characters that are not whitespace.
RECURSIVE split_ws(_, _)
split_ws(t, piece) ==
    IF t = <<>> THEN (IF piece = <<>> THEN <<>> ELSE <<piece>>)
    ELSE IF Head(t) \in Whitespace
           THEN (IF piece = <<>> THEN <<>> ELSE <<piece>>) \o split_ws(Tail(t), <<>>)
           ELSE split_ws(Tail(t), Append(piece, Head(t)))

split(t, delimiter) ==
    IF delimiter = "None" THEN split_ws(t, <<>>) ELSE split_sep(t, delimiter, <<>>)

DigitValue(c) == CHOOSE d \in 0..9 : Digits[d + 1] = c

IsDigits(t) == t # <<>> /\ \A i \in 1..Len(t) : \E d \in 0..9 : Digits[d + 1] = t[i]

RECURSIVE DigitsValue(_)
DigitsValue(t) ==
    IF t = <<>> THEN 0
    ELSE 10 * DigitsValue(SubSeq(t, 1, Len(t) - 1)) + DigitValue(t[Len(t)])

\* cast(x, int), lines 41-42: int(x).  A text that is not an optional sign and
\* decimal digits is a ValueError.
cast_int(x) ==
    LET t == strip(x)
        u == IF t # <<>> /\ Head(t) \in {"-", "+"} THEN Tail(t) ELSE t
    IN  IF ~IsDigits(u) THEN [raised |-> "ValueError", value |-> 0]
        ELSE [raised |-> "none",
              value  |-> IF t # <<>> /\ Head(t) = "-" THEN -DigitsValue(u)
                                                      ELSE DigitsValue(u)]

\* loadtxt, line 76: [cast(v.strip(), dtype) for v in l.strip().split(delimiter)]
loadtxt_row(line, delimiter) ==
    LET pieces == split(strip(line), delimiter)
        a      == [j \in 1..Len(pieces) |-> cast_int(strip(pieces[j]))]
    IN  IF \E j \in 1..Len(a) : a[j].raised # "none"
          THEN [raised |-> "ValueError", value |-> <<>>]
          ELSE [raised |-> "none", value |-> [j \in 1..Len(a) |-> a[j].value]]

\* loadtxt(fname, dtype = int, delimiter) on an existing file: one row for
\* each line; a ValueError of cast is not caught (only IOError is).
loadtxt(text, delimiter) ==
    LET lines == file_lines(text, <<>>)
        rows  == [i \in 1..Len(lines) |-> loadtxt_row(lines[i], delimiter)]
    IN  IF \E i \in 1..Len(rows) : rows[i].raised # "none"
          THEN [raised |-> "ValueError", value |-> <<>>]
          ELSE [raised |-> "none", value |-> [i \in 1..Len(rows) |-> rows[i].value]]

\* The layers saved: ascending lists of at most MaxLayerLen indices, the empty
\* list included (get_shape_layers returns one as its last layer when the
\* last hull takes every active point).
IoLayers ==
    {SortedSeq(S) : S \in {T \in SUBSET (0..MaxIndex) : Cardinality(T) <= MaxLayerLen}}

IoLayerLists ==
    UNION {[1..n -> IoLayers] : n \in 1..MaxLayers}

\* the delimiters loadtxt is called with for a file written with delimiter d:
\* the same one, or the default (None, any whitespace) for a blank
LoadDelimiters(d) == IF d = " " THEN {"None", " "} ELSE {d}

InitIo ==
    /\ engine = "none"
    /\ mode = "none"
    /\ points = <<>>
    /\ P = <<>>
    /\ pc = "save"
    /\ all_indices = <<>>
    /\ boundaries \in IoLayerLists
    /\ l = 0
    /\ raised = "none"
    /\ hull_calls = <<>>
    /\ call = NoCall
    /\ ret = NoRet
    /\ file = <<>>
    /\ hull_memo = {}
    /\ actives = <<>>
    /\ prior = NoPrior

\* savetxt(fname, X, fmt = '{:d}', delimiter = d) of the LayerSequence
Savetxt ==
    /\ pc = "save"
    /\ \E d \in {" ", ","} :
         LET w == savetxt(boundaries, <<d>>, <<"\n">>)
         IN  /\ call' = [fn |-> "savetxt", delimiter |-> d]
             /\ file' = w.text
             /\ ret' = [raised |-> w.raised]
             /\ pc' = IF w.raised = "none" THEN "saved" ELSE "error"
    /\ UNCHANGED <<engine, mode, points, P, all_indices, boundaries, l, raised,
                   hull_calls, hull_memo, actives, prior>>

\* loadtxt(fname, dtype = int, delimiter = d) of the file just written
Loadtxt ==
    /\ pc = "saved"
    /\ \E d \in LoadDelimiters(call.delimiter) :
         /\ call' = [fn |-> "loadtxt", delimiter |-> d]
         /\ ret' = loadtxt(file, d)
    /\ pc' = "returned"
    /\ UNCHANGED <<engine, mode, points, P, all_indices, boundaries, l, raised,
                   hull_calls, file, hull_memo, actives, prior>>

NextIo ==
    \/ Savetxt
    \/ Loadtxt

IoSpec == InitIo /\ [][NextIo]_vars

-----------------------------------------------------------------------------
(* Properties.                                                             *)

\* the index set {0, ..., N-1} of the caller's cloud
AllIndices == 0..(Len(points) - 1)

\* the indices of layer i of the LayerSequence
Layer(i) == Range(boundaries[i])

\* the dimension of the cloud the peeling loop works on
LoopDim == Len(P[1])

\* C1 -- Partition law: when peel or get_shape_layers has returned, no index
\* occurs twice in a layer, the layers are pairwise disjoint, and their union
\* is exactly {0, ..., N-1}.
C1_PartitionLaw ==
    pc = "done" =>
        /\ \A i \in 1..Len(boundaries) :
               Cardinality(Layer(i)) = Len(boundaries[i])
        /\ \A i, j \in 1..Len(boundaries) :
               i # j => Layer(i) \cap Layer(j) = {}
        /\ UNION {Layer(i) : i \in 1..Len(boundaries)} = AllIndices

\* peel has returned after two iterations, with a layer for each hull.
C1_Witness ==
    engine = "peel" /\ pc = "done" /\ Len(boundaries) >= 2 /\ l >= 2

\* C2 -- (the claim as stated) when the hull solver fails in peel because the
\* active points, of dimension at least 2, are not in general position, the
\* run does not end in an error: the failure is reported as an empty hull.
C2_DegeneracyAbsorbed ==
    ( /\ engine = "peel"
      /\ pc # "start"
      /\ LoopDim >= 2
      /\ Len(all_indices) > LoopDim + 1
      /\ AffinelyDegenerate(SubCloud(P, all_indices)) )
    => pc # "error"

\* C3 -- (the claim as stated) get_convex_hull on 1 <= |S| <= m+1 indices
\* returns an empty set of hull indices and raises nothing.
C3_SmallSetDegenerate ==
    ( /\ pc = "returned"
      /\ call.fn = "get_convex_hull"
      /\ Len(call.indices) >= 1
      /\ Len(call.indices) <= Len(points[1]) + 1 )
    => (ret.raised = "none" /\ ret.value = {})

\* C4 -- Threshold boundary: peel on N <= m+1 points of dimension m does not
\* fail, and once it has returned there is exactly one layer, which holds all
\* N indices.
C4_ThresholdBoundary ==
    (engine = "peel" /\ pc # "start" /\ Len(P) <= LoopDim + 1) =>
        /\ pc # "error"
        /\ hull_calls = <<>>
        /\ pc = "done" => (Len(boundaries) = 1 /\ Layer(1) = AllIndices)

\* peel has returned on exactly m+1 = 4 points of dimension 3.
C4_Witness ==
    /\ engine = "peel" /\ pc = "done"
    /\ LoopDim = 3 /\ Len(P) = 4
    /\ Len(boundaries) = 1

\* C5 -- (the claim as stated, for clouds of dimension at least 2, which the
\* hull solver accepts) Termination: the loop is in Done or on its way there
\* (about to start or in Peeling, where an iteration or the return is always
\* enabled), never stopped anywhere else, and it has made at most N iterations.
C5_ReachesDone ==
    (pc # "start" /\ LoopDim >= 2) =>
        /\ pc \in {"peeling", "done"}
        /\ l <= Len(points)

\* C6 -- Monotonic shrink: no step adds an index to the ActiveSet of a running
\* loop, and every iteration that leaves the engine in Peeling leaves a strict
\* subset of the ActiveSet it started from.
C6_MonotonicShrink ==
    [][ /\ pc = "peeling" => Range(all_indices') \subseteq Range(all_indices)
        /\ (pc = "peeling" /\ pc' = "peeling") =>
              /\ Range(all_indices') # Range(all_indices)
              /\ Len(all_indices') < Len(all_indices) ]_vars

\* get_shape_layers is still in its loop after two iterations.
C6_Witness ==
    engine = "shape" /\ pc = "peeling" /\ l = 2 /\ Len(all_indices) > 0

\* C7 -- (the claim as stated) no layer of a returned LayerSequence is empty.
C7_NoEmptyLayer ==
    pc = "done" => \A i \in 1..Len(boundaries) : Len(boundaries[i]) > 0

\* C8 -- (the claim as stated) in default mode the cloud handed to the peeling
\* loop is collapse(project(points), m-1): in the peeler.py script, and in
\* get_shape_layers with project_collapse = True and M >= 3.
C8_DefaultModeCloud ==
    ( /\ pc \in {"peeling", "done", "error"}
      /\ mode = "default"
      /\ (engine = "peel" \/ (engine = "shape" /\ Len(points[1]) >= 3)) )
    => P = collapse(project(points), Len(points[1]) - 1)

\* C9 -- (the claim as stated) collapse with a coordinate index outside
\* 0 <= d < m does not return a cloud.
C9_OutOfRangeFatal ==
    ( /\ pc = "returned"
      /\ call.fn \in {"collapse", "collapse_nd"}
      /\ (call.d < 0 \/ call.d >= Len(points[1])) )
    => ret.raised # "none"

\* C10 -- for 0 <= d < m both collapse functions return, for every point in
\* index order, the m-1 coordinates other than coordinate d in their original
\* order; so the two agree.
C10_CollapseRemovesD ==
    ( /\ pc = "returned"
      /\ call.fn \in {"collapse", "collapse_nd"}
      /\ call.d >= 0 /\ call.d < Len(points[1]) )
    => /\ ret.raised = "none"
       /\ Len(ret.value) = Len(points)
       /\ \A k \in 1..Len(points) :
            /\ Len(ret.value[k]) = Len(points[k]) - 1
            /\ \A j \in 1..(Len(points[k]) - 1) :
                 ret.value[k][j] = points[k][IF j <= call.d THEN j ELSE j + 1]
       /\ ret.value = collapse(points, call.d)
       /\ ret.value = collapse_nd(points, call.d).value

\* the array-based collapse has removed the middle coordinate of a cloud of
\* dimension 3 whose first point has three coordinates that are not all equal.
C10_Witness ==
    /\ pc = "returned"
    /\ call.fn = "collapse_nd"
    /\ Len(points[1]) = 3 /\ call.d = 1
    /\ \E k \in 1..Len(points) : points[k][1] # points[k][2]
    /\ ret.raised = "none"

\* the LayerSequences get_shape_layers returns on a cloud that is not empty:
\* the first layer is not empty, and no layer but the last is
ReturnedByShape(X) ==
    /\ Len(X) >= 1
    /\ Len(X[1]) > 0
    /\ \A i \in 1..(Len(X) - 1) : Len(X[i]) > 0

\* C11 -- (the claim as stated) Round trip: loadtxt of the file savetxt wrote,
\* with the integer type and the matching delimiter, returns the layers that
\* were saved: as many, in the same order, each with the same indices.
C11_RoundTrip ==
    (pc = "returned" /\ call.fn = "loadtxt" /\ ReturnedByShape(boundaries)) =>
        (ret.raised = "none" /\ ret.value = boundaries)

\* the round trip of the LayerSequences without an empty layer
RoundTripNonEmptyLayers ==
    ( /\ pc = "returned" /\ call.fn = "loadtxt"
      /\ \A i \in 1..Len(boundaries) : Len(boundaries[i]) > 0 )
    => (ret.raised = "none" /\ ret.value = boundaries)

\* a jagged LayerSequence with a two-digit index has made the round trip
RoundTripReached ==
    /\ pc = "returned" /\ call.fn = "loadtxt"
    /\ Len(boundaries) = 2
    /\ Len(boundaries[1]) = 2 /\ Len(boundaries[2]) = 1
    /\ boundaries[1][2] = 10

\* C13 -- Scenario B: peel on the four corners of the unit square (indices
\* 0..3) and its centre (index 4), m = 2, does not fail and returns exactly
\* the layers {0,1,2,3} and {4}; the hull solver is called once, on all five
\* points, and not in the second iteration.
C13_ScenarioB ==
    (engine = "peel" /\ pc # "start" /\ P = ScenarioB) =>
        /\ pc # "error"
        /\ Len(hull_calls) <= 1
        /\ pc = "done" =>
              /\ Len(boundaries) = 2
              /\ Layer(1) = {0, 1, 2, 3}
              /\ Layer(2) = {4}
              /\ hull_calls = <<5>>

\* peel has returned on the square with its centre.
C13_Witness ==
    /\ engine = "peel" /\ pc = "done" /\ P = ScenarioB
    /\ Len(boundaries) = 2 /\ l = 1

\* C14 -- the Simplex Projector is fixed on its image: project applied to a
\* projected cloud returns it unchanged, coordinate by coordinate, in exact
\* arithmetic; and the projected cloud is p[i] - sum(p)/m + 1/m.
C14_ProjectFixedOnImage ==
    /\ (pc = "returned" /\ call.fn \in {"project", "project_nd"}) =>
          \A k \in 1..Len(points) : \A i \in 1..Len(points[k]) :
              Len(points[k]) * ret.value[k][i]
                  = Len(points[k]) * points[k][i] - SeqSum(points[k]) + Den
    /\ (pc = "returned" /\ call.fn \in {"project_twice", "project_nd_twice"}) =>
          ret.value = call.arg

\* project has been applied twice to a cloud that the first projection moved.
C14_Witness ==
    /\ pc = "returned"
    /\ call.fn = "project_twice"
    /\ Len(points[1]) = 3
    /\ call.arg # points

\* the ActiveSet is at or below the threshold of the running engine:
\* m + 1 in peel, 2M in get_shape_layers (which stops below 2M + 1)
AtOrBelowThreshold ==
    IF engine = "peel" THEN Len(all_indices) <= LoopDim + 1
                       ELSE Len(all_indices) <= 2 * Len(points[1])

\* C15 -- the hull solver is never called on an ActiveSet at or below the
\* threshold: each call is made in Peeling on more than m+1 indices (peel),
\* on at least 2M+1 indices (get_shape_layers); at or below the threshold the
\* step taken goes to Done without a hull call and the remaining ActiveSet,
\* whole, is the final layer (in peel no layer is added for an empty one).
C15_NoHullAtThreshold ==
    [][ /\ hull_calls' # hull_calls =>
              /\ pc = "peeling"
              /\ ~AtOrBelowThreshold
              /\ hull_calls' = Append(hull_calls, Len(all_indices))
        /\ (pc = "peeling" /\ AtOrBelowThreshold) =>
              /\ pc' = "done"
              /\ hull_calls' = hull_calls
              /\ all_indices' = all_indices
              /\ IF engine = "peel" /\ all_indices = <<>>
                   THEN boundaries' = boundaries
                   ELSE boundaries' = Append(boundaries, all_indices) ]_vars

\* get_shape_layers has returned after two hull calls, with a remainder that
\* is not empty as its final layer.
C15_Witness ==
    /\ engine = "shape" /\ pc = "done"
    /\ Len(hull_calls) = 2
    /\ Len(all_indices) > 0
    /\ boundaries[Len(boundaries)] = all_indices

\* C17 -- every layer is made of original indices of points still active: the
\* layer an iteration (or the return) appends is a subset of the ActiveSet
\* immediately before that step, and an iteration removes exactly its layer
\* from the ActiveSet.
C17_LayerFromActiveSet ==
    [][ (pc = "peeling" /\ boundaries' # boundaries) =>
            /\ Len(boundaries') = Len(boundaries) + 1
            /\ SubSeq(boundaries', 1, Len(boundaries)) = boundaries
            /\ Range(boundaries'[Len(boundaries')]) \subseteq Range(all_indices)
            /\ pc' = "peeling" =>
                  Range(all_indices') =
                      Range(all_indices) \ Range(boundaries'[Len(boundaries')]) ]_vars

\* peel has made a second iteration whose layer holds an index that is not a
\* position of the sub-cloud it was computed on.
C17_Witness ==
    /\ engine = "peel" /\ l = 2
    /\ Len(boundaries) >= 2
    /\ \E x \in Layer(2) : x >= Len(boundaries[2])

EmptyHullReturned ==
    /\ engine = "peel" /\ pc = "peeling"
    /\ hull_calls' # hull_calls
    /\ "value" \in DOMAIN ret'
    /\ ret'.raised = "none" /\ ret'.value = {}

\* C16 -- when get_convex_hull returns an empty set in a pass of peel, no
\* layer is appended for that pass, the engine is Done at once, no further
\* hull is computed, and the final layer is the whole ActiveSet as it was
\* before that pass.
C16_EmptyHullEndsPeel ==
    [][ /\ EmptyHullReturned =>
              /\ pc' = "done"
              /\ l' = l
              /\ all_indices' = all_indices
              /\ hull_calls' = Append(hull_calls, Len(all_indices))
              /\ boundaries' = Append(boundaries, all_indices)
        /\ pc = "done" => hull_calls' = hull_calls ]_vars

\* peel is Done after one real layer and then an empty hull
C16_Witness ==
    /\ engine = "peel" /\ pc = "done"
    /\ "value" \in DOMAIN ret /\ ret.raised = "none" /\ ret.value = {}
    /\ l = 1 /\ Len(boundaries) = 2
    /\ boundaries[2] = all_indices
    /\ Len(P[1]) >= 2

\* s is an initial segment of t
IsPrefix(s, t) == Len(s) <= Len(t) /\ SubSeq(t, 1, Len(s)) = s

====
